---- MODULE Spec2Model ----
(***************************************************************************)
(* Model of the file transfer harness (src/harness): the process entry     *)
(* point run.main, the per-job run loop Job.run, the tracked transfer      *)
(* Job._transfer_file and the retrying senders of HTTPJob and SFTPJob.     *)
(*                                                                         *)
(* Time is in milliseconds and is kept relative: a timer holds the time    *)
(* left until it fires, a timestamp of the program (last_scan_time,        *)
(* last_ramp_time) is kept as the time elapsed since it was taken.  Rates  *)
(* are kept in files per hour so that the three units of parse_rate (per   *)
(* second, per minute, per hour) stay exact integers: N/s = 3600*N,        *)
(* N/min = 60*N, N/h = N.                                                  *)
(***************************************************************************)
EXTENDS Integers, Sequences, FiniteSets, TLC

VARIABLES
  mainpc,    \* position of run.main: "create", "gather", "returned", "exit1"
  cfg,       \* job id -> configuration record (immutable)
  nextId,    \* number of transaction ids minted so far + 1 (uuid4 source)
  rate,      \* job id -> [current, interval, last_ramp]; last_ramp is the
             \* time elapsed since last_ramp_time, NoTime while it is None
  stats,     \* job id -> [total, ok, failed]
  active,    \* job id -> active_transfers (set of transaction ids)
  loop,      \* job id -> run loop state [pc, files, tx, wake, ran, since]:
             \* wake is the time left of the current sleep, ran the time
             \* since the loop was entered, since the time since the loop
             \* last started a transfer (NoTime before the first)
  tasks,     \* job id -> the run loop's local set `tasks`
  xfer,      \* job id -> set of transfer records (one per dispatch), kept
             \* until the run loop lets go of the transfer
  last,      \* job id -> record of the transfer that finished last
  dir,       \* job id -> regular files present in the source directory
  lastScan,  \* job id -> time elapsed since last_scan_time
  envOps,    \* number of changes made to the directories from outside
  pool,      \* job id -> keys of SFTPJob.connection_pool (task identities
             \* under which an open session is stored)
  src,       \* job id -> what the path of the source directory is:
             \* "dir", "missing" or "file"
  metrics,   \* job id -> [bytes, elapsed, emitted]: total_bytes, the time
             \* elapsed since last_metrics_time (while a job runs tracked,
             \* as every elapsed time, up to MaxRan), and the number of
             \* summaries logged by _log_metrics
  session    \* job id -> [cur, open]: cur is 1 while HTTPJob.session is
             \* not None; open is the number of client sessions that the
             \* job has created and not closed

vars == <<mainpc, cfg, nextId, rate, stats, active, loop, tasks, xfer,
          last, dir, lastScan, envOps, pool, src, metrics, session>>

(***************************************************************************)
(* Bounds of the model.                                                    *)
(***************************************************************************)
MaxRan == 2000         \* elapsed times are tracked up to this many ms
MaxEnvOps == 1         \* changes made to a directory from outside
MaxDispatch == 3       \* transaction ids minted per run
MaxEmitted == 2        \* metrics summaries logged by one job

JobIds == {1, 2}
Files == {"a", "b"}

(***************************************************************************)
(* Program constants.                                                      *)
(***************************************************************************)
NoTime == -1                 \* None (last_ramp_time before it is ever set)
Infinity == 999999999        \* float('inf')
ScanIntervalMs == 1000       \* Job.scan_interval
IdleSleepMs == 1000          \* asyncio.sleep(1) after an empty scan
HttpMaxRetries == 3          \* HTTPJob.max_retries
HttpRetryDelayMs == 1000     \* HTTPJob.retry_delay
SftpMaxRetries == 3          \* SFTPJob.max_retries
SftpRetryDelayMs == 2000     \* SFTPJob.retry_delay
ConnectionDelayMs == 500     \* SFTPJob.connection_delay
RunTask == 0                 \* identity of the task that runs Job.run
MetricsWindowMs == 60000     \* _log_metrics: elapsed >= 60

Min(a, b) == IF a <= b THEN a ELSE b

Range(q) == {q[i] : i \in 1..Len(q)}

RECURSIVE Pow2(_)
Pow2(k) == IF k = 0 THEN 1 ELSE 2 * Pow2(k - 1)

(***************************************************************************)
(* config.parse_rate: a rate string "N/unit" to files per hour.  The       *)
(* string is the record [n, unit, caps, blanks]: the number N, the letters *)
(* of the unit in lower case, the positions of the letters that are        *)
(* written as capitals, and the number of blanks written around the unit.  *)
(* The empty string or None (NoRate) parses to 0.  Line 175 lowers and     *)
(* strips the unit, lines 177-184 compare it with the known units; a unit  *)
(* that is none of them raises ValueError (ParseRaises; ParseRate is then  *)
(* not used).                                                              *)
(***************************************************************************)
Written(n, unit, caps, blanks) ==
  [n |-> n, unit |-> unit, caps |-> caps, blanks |-> blanks]

\* a rate string written in lower case without blanks
RateStr(n, unit) == Written(n, unit, {}, 0)

NoRate == RateStr(0, "")

PerSec(n) == RateStr(n, "s")

SecondUnits == {"s", "sec", "second", "seconds"}

MinuteUnits == {"m", "min", "minute", "minutes"}

HourUnits == {"h", "hour", "hours"}

\* str.lower: no letter is a capital any more
LowerNone(r) == r

Lower(r) == [r EXCEPT !.caps = {}]

\* str.strip: the blanks around the text are gone
Strip(r) == [r EXCEPT !.blanks = 0]

\* `unit in (...)`: the text is, letter for letter, one of the units
IsOneOf(r, units) == r.unit \in units /\ r.caps = {} /\ r.blanks = 0

\* line 175: unit = unit.lower().strip()
Normal(r) == Strip(Lower(r))

ParseRaises(r) ==
  /\ r # NoRate
  /\ ~ IsOneOf(Normal(r), SecondUnits \cup MinuteUnits \cup HourUnits)

\* as ParseRate, the unit ignored
ParseRateNoUnit(r) == r.n

ParseRate(r) ==
  IF r = NoRate THEN 0
  ELSE IF IsOneOf(Normal(r), SecondUnits) THEN 3600 * r.n
  ELSE IF IsOneOf(Normal(r), MinuteUnits) THEN 60 * r.n
  ELSE r.n

(***************************************************************************)
(* Job.__init__: the rate check and the initial rate state.                *)
(***************************************************************************)
RatesValidNoCheck(c) == TRUE

RatesValid(c) == ~ (ParseRate(c.initial) > ParseRate(c.target))

RampOf(c) == IF c.ramp = NoRate THEN 0 ELSE ParseRate(c.ramp)

\* Job._calculate_interval: seconds per file, here ms per file
CalculateInterval(current) ==
  IF current > 0 THEN 3600000 \div current ELSE Infinity

\* create_job, lines 699-706, and the constructors it calls
ConstructsAnything(c) == TRUE

Constructs(c) ==
  /\ c.type \in {"http", "sftp"}
  /\ ~ ParseRaises(c.initial)
  /\ ~ ParseRaises(c.target)
  /\ ~ ParseRaises(c.ramp)
  /\ RatesValid(c)

MaxRetries(c) == IF c.type = "http" THEN HttpMaxRetries ELSE SftpMaxRetries

RetryDelay(c) == IF c.type = "http" THEN HttpRetryDelayMs ELSE SftpRetryDelayMs

Present == {j \in JobIds : cfg[j].type # "none"}

Created == {j \in JobIds : loop[j].pc # "absent"}

(***************************************************************************)
(* Transfers.  One record per dispatch:                                    *)
(*   st    "start"   created, waiting for transfer_semaphore               *)
(*         "admit"   inside an attempt, waiting for pool_semaphore         *)
(*         "connect" inside an attempt, making an SFTP connection          *)
(*         "send"    inside an attempt of send_file (I/O for `wake` more)  *)
(*         "backoff" sleeping in _handle_retry for `wake` more             *)
(*         "done"    _transfer_file has returned; res is its outcome       *)
(*         "cancelled"                                                     *)
(*   rc    retry_count of the current attempt                              *)
(*   delays  the backoff delays slept so far                               *)
(*   age   the time since start_time was taken (line 202)                  *)
(*   tid   the transaction_id handed to the current attempt (0: none yet)  *)
(*   hdr   the configured header value as the current attempt of an HTTP   *)
(*         job formatted it: [ok, out], ok FALSE when str.format raised    *)
(*   resp  what the last finished attempt met                              *)
(***************************************************************************)
\* what an attempt can meet: an HTTP response with a status code, an
\* exception of some kind, or (SFTP) a put that went through
Status(code) == [kind |-> "status", code |-> code]

Exc(kind) == [kind |-> kind, code |-> 0]

NoAnswer == Exc("none")

Formatted(out) == [ok |-> TRUE, out |-> out]

FormatRaised == [ok |-> FALSE, out |-> <<>>]

NewTransfer(id, f) ==
  [id |-> id, file |-> f, st |-> "start", rc |-> 0, wake |-> 0,
   delays |-> <<>>, res |-> "none", age |-> 0, tid |-> 0,
   hdr |-> Formatted(<<>>), resp |-> NoAnswer]

\* what is remembered of the transfer that finished last; dur is the
\* duration measured at line 230
Outcome(t, res) ==
  [id |-> t.id, file |-> t.file, res |-> res, dur |-> t.age, resp |-> t.resp,
   hdr |-> t.hdr, tid |-> t.tid]

NoOutcome ==
  [id |-> 0, file |-> "", res |-> "none", dur |-> 0, resp |-> NoAnswer,
   hdr |-> Formatted(<<>>), tid |-> 0]

(***************************************************************************)
(* The client session of an HTTP job.                                      *)
(***************************************************************************)
\* HTTPJob.session is None (line 348) and the job has no session open
NoSession == [cur |-> 0, open |-> 0]

\* HTTPJob._ensure_session, lines 364-409: a session is created when
\* self.session is None; no await lies between the test and the assignment
EnsureSession(c, s) ==
  IF c.type = "http" /\ s.cur = 0 THEN [cur |-> 1, open |-> s.open + 1]
  ELSE s

\* HTTPJob.__aexit__, lines 358-362: the session that self.session names
\* is closed and self.session is set to None
CloseSession(c, s) ==
  IF c.type = "http" /\ s.cur = 1 THEN [cur |-> 0, open |-> s.open - 1]
  ELSE s

(***************************************************************************)
(* Initial states: the configuration file has been loaded, nothing has     *)
(* been constructed yet.                                                   *)
(***************************************************************************)
\* a server that answers an HTTP request with 200 or with 500
AnyServer == {Status(200), Status(500)}

AbsentCfg ==
  [type |-> "none", mode |-> "sequential", maxc |-> 1, creds |-> "accepted",
   io |-> 0, initial |-> NoRate, target |-> NoRate, ramp |-> NoRate,
   remote |-> "str", header |-> <<>>, server |-> AnyServer]

\* A job's configuration, and two properties of the server it sends to:
\* whether the server accepts the job's credentials (SFTP), and how long
\* the server takes over one attempt (io, ms).  remote is the type of the
\* value that the configuration file gives for remote_path (SFTP).  header
\* is the value of one configured HTTP header, as a sequence of tokens
\* (<<>>: no header configured); server is the set of things the HTTP
\* server may do to a request.
JobCfg(type, creds, mode, maxc, rates, io) ==
  [type |-> type, mode |-> mode, maxc |-> maxc, creds |-> creds, io |-> io,
   initial |-> rates[1], target |-> rates[2], ramp |-> rates[3],
   remote |-> "str", header |-> <<>>, server |-> AnyServer]

Steady == <<PerSec(1), PerSec(1), NoRate>>
Ramping == <<PerSec(1), PerSec(2), PerSec(1)>>
Inverted == <<PerSec(2), PerSec(1), NoRate>>

\* SFTP jobs whose remote_path is a number in the configuration file
RemoteCfgs ==
  { [JobCfg("sftp", "accepted", m, 1, Steady, 500) EXCEPT !.remote = "int"] :
      m \in {"sequential", "concurrent"} }

\* rates a little below, at and a little above 2 files per second, in each
\* of the three units
RateStrs ==
  { RateStr(n, "s") : n \in {1, 2, 3} }
    \cup { RateStr(n, "m") : n \in {119, 120, 121} }
    \cup { RateStr(n, "h") : n \in {7199, 7200, 7201} }

TargetStrs == { RateStr(2, "s"), RateStr(120, "m"), RateStr(7200, "h") }

RateCfgs ==
  { JobCfg("http", "accepted", "sequential", 1, <<i, t, NoRate>>, 0) :
      i \in RateStrs, t \in TargetStrs }

\* configurations that cannot be constructed for another reason than the
\* order of the rates: an unknown unit, an unknown job type
BadCfgs ==
  { JobCfg("http", "accepted", "sequential", 1, r, 0) :
      r \in { <<RateStr(1, "d"), PerSec(1), NoRate>>,
               <<PerSec(1), RateStr(1, ""), NoRate>>,
               <<PerSec(1), PerSec(1), RateStr(1, "fortnight")>> } }
    \cup { JobCfg("ftp", "accepted", "sequential", 1, Steady, 0) }

JobCfgs ==
  { JobCfg("http", "accepted", "sequential", 1, r, d) :
      r \in {Steady, Ramping, Inverted}, d \in {0, 500} }
    \cup
  { JobCfg("http", "accepted", "concurrent", k, Steady, 500) : k \in {1, 2} }
    \cup
  { JobCfg("http", "accepted", "sequential", 2, Steady, 500) }
    \cup
  { JobCfg("sftp", c, m, 1, Steady, 500) :
      c \in {"accepted", "rejected"}, m \in {"sequential", "concurrent"} }
    \cup BadCfgs \cup RemoteCfgs

\* the directories a job starts with
Dirs(c) ==
  IF c.maxc > 1 THEN {{"a", "b"}}
  ELSE IF c \in RateCfgs \cup BadCfgs \cup RemoteCfgs THEN {{"a"}}
  ELSE {{}, {"a"}, {"a", "b"}}

InitCommon ==
  /\ mainpc = "create"
  /\ nextId = 1
  /\ rate = [j \in JobIds |-> [current |-> 0, interval |-> Infinity,
                               last_ramp |-> NoTime]]
  /\ stats = [j \in JobIds |-> [total |-> 0, ok |-> 0, failed |-> 0]]
  /\ active = [j \in JobIds |-> {}]
  /\ loop = [j \in JobIds |-> [pc |-> "absent", files |-> <<>>, tx |-> 0,
                               wake |-> 0, ran |-> 0, since |-> NoTime]]
  /\ tasks = [j \in JobIds |-> {}]
  /\ xfer = [j \in JobIds |-> {}]
  /\ last = [j \in JobIds |-> NoOutcome]
  /\ lastScan = [j \in JobIds |-> ScanIntervalMs]
  /\ envOps = 0
  /\ pool = [j \in JobIds |-> {}]
  /\ metrics = [j \in JobIds |-> [bytes |-> 0, elapsed |-> 0, emitted |-> 0]]
  /\ session = [j \in JobIds |-> NoSession]

\* the source path of every job is a directory
SourcesExist == src = [j \in JobIds |-> "dir"]

Init ==
  /\ InitCommon
  /\ SourcesExist
  /\ \E c \in JobCfgs : \E d \in Dirs(c) :
       /\ cfg = [j \in JobIds |-> IF j = 1 THEN c ELSE AbsentCfg]
       /\ dir = [j \in JobIds |-> IF j = 1 THEN d ELSE {}]

(***************************************************************************)
(* run.main, lines 93-113: every job is constructed before any runs; a     *)
(* job whose construction raises is logged and left out.                   *)
(***************************************************************************)
NewRate(c) ==
  [current |-> ParseRate(c.initial),
   interval |-> CalculateInterval(ParseRate(c.initial)),
   last_ramp |-> NoTime]

CreateJobs ==
  /\ mainpc = "create"
  /\ LET ok == {j \in Present : Constructs(cfg[j])}
     IN /\ rate' = [j \in JobIds |-> IF j \in ok THEN NewRate(cfg[j]) ELSE rate[j]]
        /\ loop' = [j \in JobIds |->
                      IF j \in ok THEN [loop[j] EXCEPT !.pc = "enter"]
                      ELSE loop[j]]
        /\ mainpc' = IF ok = {} THEN "returned" ELSE "gather"
  /\ UNCHANGED <<session, src, metrics, pool, cfg, nextId, stats, active, tasks, xfer, dir, lastScan,
                 last, envOps>>

(***************************************************************************)
(* Job._update_rate, lines 108-128.  Nothing is done when no ramp is       *)
(* configured or while last_ramp_time is None.                             *)
(***************************************************************************)
UpdateRate(j) ==
  LET r == rate[j]
      ramp == RampOf(cfg[j])
  IN IF ramp = 0 \/ r.last_ramp = NoTime THEN r
     ELSE LET time_passed == r.last_ramp
              rate_increase == (ramp * time_passed) \div 1000
              new_rate == Min(r.current + rate_increase,
                              ParseRate(cfg[j].target))
          IN [current |-> new_rate,
              interval |-> IF new_rate # r.current
                           THEN CalculateInterval(new_rate) ELSE r.interval,
              last_ramp |-> 0]

InFlight(j) ==
  {t \in xfer[j] : t.st \in {"start", "admit", "connect", "send", "backoff"}}

Holding(j) ==
  {t \in xfer[j] : t.st \in {"admit", "connect", "send", "backoff"}}

\* asyncio.Semaphore(max_concurrent_transfers), line 90
SemFree(j) == Cardinality(Holding(j)) < cfg[j].maxc

DoneIds(j) == {t.id : t \in {u \in xfer[j] : u.st = "done"}}

Perms(S) ==
  {s \in [1..Cardinality(S) -> S] : \A a, b \in 1..Cardinality(S) :
                                       a # b => s[a] # s[b]}

\* run.main is in asyncio.gather and no job's exception is on its way to it
Running ==
  /\ mainpc = "gather"
  /\ \A j \in JobIds : loop[j].pc \notin {"raised", "exited"}

(***************************************************************************)
(* Job.run, line 268: entering the job's context; HTTPJob.__aenter__,      *)
(* lines 353-356, creates the session.                                     *)
(***************************************************************************)
Enter(j) ==
  /\ Running
  /\ loop[j].pc = "enter"
  /\ loop' = [loop EXCEPT ![j].pc = "top", ![j].ran = 0]
  /\ session' = [session EXCEPT ![j] = EnsureSession(cfg[j], @)]
  /\ UNCHANGED <<src, metrics, pool, mainpc, cfg, nextId, rate, stats, active, tasks, xfer, dir,
                 lastScan, last, envOps>>

(***************************************************************************)
(* Job.run, lines 272-287: one pass over the head of the loop body:        *)
(* _update_rate, the reaping of finished tasks, _scan_directory (lines     *)
(* 158-191, rate limited by scan_interval), and the 1 s sleep when the     *)
(* scan yields nothing.                                                    *)
(***************************************************************************)
ScanReadsAlways(j) == TRUE

ScanReads(j) == ~ (lastScan[j] < ScanIntervalMs)

\* lines 168-174: os.path.exists and os.path.isdir
IsDirAlways(j) == TRUE

IsDir(j) == src[j] = "dir"

\* lines 168-188: nothing for a path that is missing or is not a directory,
\* else the regular files in it
ListingNone(j) == {}

Listing(j) == IF IsDir(j) THEN dir[j] ELSE {}

LoopIterate(j) ==
  /\ Running
  /\ loop[j].pc = "top"
  /\ rate' = [rate EXCEPT ![j] = UpdateRate(j)]
  /\ tasks' = [tasks EXCEPT ![j] = @ \ DoneIds(j)]
  /\ xfer' = [xfer EXCEPT ![j] = {t \in @ : t.id \notin DoneIds(j)}]
  /\ lastScan' = [lastScan EXCEPT ![j] = IF ScanReads(j) THEN 0 ELSE @]
  /\ IF ScanReads(j) /\ Listing(j) # {}
     THEN \E order \in Perms(Listing(j)) :
            loop' = [loop EXCEPT ![j].pc = "for", ![j].files = order]
     ELSE loop' = [loop EXCEPT ![j].pc = "idle", ![j].files = <<>>,
                               ![j].wake = IdleSleepMs]
  /\ UNCHANGED <<session, src, metrics, pool, mainpc, cfg, nextId, stats, active, dir, last, envOps>>

IdleWake(j) ==
  /\ Running
  /\ loop[j].pc = "idle"
  /\ loop[j].wake = 0
  /\ loop' = [loop EXCEPT ![j].pc = "top"]
  /\ UNCHANGED <<session, src, metrics, pool, mainpc, cfg, nextId, rate, stats, active, tasks, xfer, dir,
                 lastScan, last, envOps>>

(***************************************************************************)
(* Job.run, lines 289-318: the for loop over the files of one scan.        *)
(***************************************************************************)
ForEnds(j) == loop[j].pc = "for" /\ loop[j].files = <<>>

ForEnd(j) ==
  /\ Running
  /\ ForEnds(j)
  /\ loop' = [loop EXCEPT ![j].pc = "top"]
  /\ UNCHANGED <<session, src, metrics, pool, mainpc, cfg, nextId, rate, stats, active, tasks, xfer, dir,
                 lastScan, last, envOps>>

\* line 289: `for filepath in files` takes the files in the order of the
\* list
LastFile(files) == files[Len(files)]

NextFile(files) == Head(files)

\* lines 290-291: the file is no longer a regular file
ForSkips(j) ==
  /\ loop[j].pc = "for"
  /\ loop[j].files # <<>>
  /\ NextFile(loop[j].files) \notin dir[j]

ForSkip(j) ==
  /\ Running
  /\ ForSkips(j)
  /\ loop' = [loop EXCEPT ![j].files = Tail(@)]
  /\ UNCHANGED <<session, src, metrics, pool, mainpc, cfg, nextId, rate, stats, active, tasks, xfer, dir,
                 lastScan, last, envOps>>

\* line 293: transaction_id = str(uuid.uuid4())
ReusedId == IF nextId > 1 THEN nextId - 1 ELSE nextId

FreshId == nextId

\* the dispatches of a run that are followed: MaxDispatch, and no fewer
\* than the job may have in flight; for a job that may run two transfers
\* at once, and when two jobs are configured, no more than three
DispatchBudget(c) ==
  LET followed == IF c.maxc > 1 \/ Cardinality(Present) > 1
                  THEN Min(MaxDispatch, 3) ELSE MaxDispatch
  IN IF c.maxc > followed THEN c.maxc ELSE followed

CanDispatch(j) ==
  /\ Running
  /\ loop[j].pc = "for"
  /\ loop[j].files # <<>>
  /\ NextFile(loop[j].files) \in dir[j]
  /\ nextId <= DispatchBudget(cfg[j])

\* line 303: len(tasks) >= self.max_concurrent_transfers
AtCapOffByOne(j) == Cardinality(tasks[j]) > cfg[j].maxc

AtCap(j) == Cardinality(tasks[j]) >= cfg[j].maxc

\* line 295: if self.transfer_mode == "sequential"
SequentialNever(c) == FALSE

Sequential(c) == c.mode = "sequential"

\* lines 295-299: sequential mode awaits the transfer
DispatchSeq(j) ==
  /\ CanDispatch(j)
  /\ Sequential(cfg[j])
  /\ xfer' = [xfer EXCEPT ![j] = @ \cup {NewTransfer(FreshId, NextFile(loop[j].files))}]
  /\ nextId' = nextId + 1
  /\ loop' = [loop EXCEPT ![j].pc = "await", ![j].tx = FreshId,
                          ![j].files = Tail(@), ![j].since = 0]
  /\ UNCHANGED <<session, src, metrics, pool, mainpc, cfg, rate, stats, active, tasks, dir, lastScan,
                 last, envOps>>

\* line 318: await asyncio.sleep(self.interval) after a launch
LaunchSleepNone(j) == 0

LaunchSleep(j) == rate[j].interval

\* lines 300-318: concurrent mode, below the cap: create the task and sleep
DispatchConc(j) ==
  /\ CanDispatch(j)
  /\ ~ Sequential(cfg[j])
  /\ ~ AtCap(j)
  /\ xfer' = [xfer EXCEPT ![j] = @ \cup {NewTransfer(FreshId, NextFile(loop[j].files))}]
  /\ tasks' = [tasks EXCEPT ![j] = @ \cup {FreshId}]
  /\ nextId' = nextId + 1
  /\ loop' = [loop EXCEPT ![j].pc = "sleep", ![j].tx = FreshId,
                          ![j].files = Tail(@), ![j].since = 0,
                          ![j].wake = LaunchSleep(j)]
  /\ UNCHANGED <<session, src, metrics, pool, mainpc, cfg, rate, stats, active, dir, lastScan, last, envOps>>

\* lines 303-308: at the cap, block in asyncio.wait(FIRST_COMPLETED)
DispatchWait(j) ==
  /\ CanDispatch(j)
  /\ ~ Sequential(cfg[j])
  /\ AtCap(j)
  /\ nextId' = nextId + 1
  /\ loop' = [loop EXCEPT ![j].pc = "wait", ![j].tx = FreshId]
  /\ UNCHANGED <<session, src, metrics, pool, mainpc, cfg, rate, stats, active, tasks, xfer, dir,
                 lastScan, last, envOps>>

\* lines 305-318: asyncio.wait returns, the finished tasks are dropped, the
\* new task is created and the loop sleeps the interval
WaitDone(j) ==
  /\ Running
  /\ loop[j].pc = "wait"
  /\ tasks[j] \cap DoneIds(j) # {}
  /\ xfer' = [xfer EXCEPT ![j] = {t \in @ : t.id \notin DoneIds(j)}
                    \cup {NewTransfer(loop[j].tx, NextFile(loop[j].files))}]
  /\ tasks' = [tasks EXCEPT ![j] = (@ \ DoneIds(j)) \cup {loop[j].tx}]
  /\ loop' = [loop EXCEPT ![j].pc = "sleep", ![j].files = Tail(@),
                          ![j].since = 0, ![j].wake = LaunchSleep(j)]
  /\ UNCHANGED <<session, src, metrics, pool, mainpc, cfg, nextId, rate, stats, active, dir, lastScan,
                 last, envOps>>

SleepWake(j) ==
  /\ Running
  /\ loop[j].pc = "sleep"
  /\ loop[j].wake = 0
  /\ loop' = [loop EXCEPT ![j].pc = "for"]
  /\ UNCHANGED <<session, src, metrics, pool, mainpc, cfg, nextId, rate, stats, active, tasks, xfer, dir,
                 lastScan, last, envOps>>

\* what an attempt can meet: a server rejecting the credentials rejects
\* them at every attempt (asyncssh.PermissionDenied out of _get_connection);
\* the put of an SFTP attempt can fail with an asyncssh.Error or OSError
\* ("error", handled at lines 663-674); with a remote_path that is not a
\* string the attempt fails every time, once it holds its session, with
\* the TypeError of os.path.join at lines 615-618 ("other", handled at
\* lines 676-681)
Rejecting(c) == c.type = "sftp" /\ c.creds = "rejected"

BadRemotePath(c) == c.type = "sftp" /\ c.remote # "str"

ErrorKinds(c) ==
  IF Rejecting(c) THEN {"auth"}
  ELSE IF BadRemotePath(c) THEN {"other"}
  ELSE {"error"}

\* where in the attempt an error of the kind is raised
FailsIn(kind) == IF kind = "auth" THEN "connect" ELSE "send"

(***************************************************************************)
(* HTTPJob._send_with_retry, lines 414-423: every configured header value  *)
(* v is replaced by v.format with the keywords of `replacements`, a dict   *)
(* of the two keys '{{uuid}}' and '{{filename}}'.  A header value is a     *)
(* sequence                                                                *)
(* of tokens: "{", "}" and pieces of text without braces.  str.format      *)
(* takes "{{" and "}}" for an escaped brace, "{" name "}" for the field    *)
(* `name`, looked up among the keywords (KeyError when absent), and raises *)
(* ValueError or IndexError for any other brace.                           *)
(***************************************************************************)
Replacements(t) ==
  [k \in {"{{uuid}}", "{{filename}}"} |->
     IF k = "{{uuid}}" THEN ToString(t.tid) ELSE t.file]

Lit(x, r) == IF r.ok THEN Formatted(<<x>> \o r.out) ELSE r

RECURSIVE Format(_, _)
Format(v, kw) ==
  IF v = <<>> THEN Formatted(<<>>)
  ELSE IF Len(v) >= 2 /\ v[1] = "{" /\ v[2] = "{"
    THEN Lit("{", Format(SubSeq(v, 3, Len(v)), kw))
  ELSE IF Len(v) >= 2 /\ v[1] = "}" /\ v[2] = "}"
    THEN Lit("}", Format(SubSeq(v, 3, Len(v)), kw))
  ELSE IF v[1] = "}" THEN FormatRaised
  ELSE IF v[1] = "{"
    THEN IF Len(v) >= 3 /\ v[2] \notin {"{", "}"} /\ v[3] = "}"
              /\ v[2] \in DOMAIN kw
         THEN Lit(kw[v[2]], Format(SubSeq(v, 4, Len(v)), kw))
         ELSE FormatRaised
  ELSE Lit(v[1], Format(Tail(v), kw))

\* line 440: if response.status >= 400
SucceedsBelow500(r) == r.kind = "ok" \/ (r.kind = "status" /\ ~ (r.code >= 500))

Succeeds(r) == r.kind = "ok" \/ (r.kind = "status" /\ ~ (r.code >= 400))

\* an SFTP server and a network that never fail a put
Reliable == {Exc("ok")}

\* what the attempt of t that is ending can meet
Answers(j, t) ==
  IF cfg[j].type = "http"
  THEN IF t.hdr.ok THEN cfg[j].server ELSE {Exc("other")}
  ELSE IF cfg[j].server = Reliable THEN Reliable
  ELSE {Exc(k) : k \in ErrorKinds(cfg[j])}
         \cup (IF Rejecting(cfg[j]) \/ BadRemotePath(cfg[j]) THEN {}
               ELSE {Exc("ok")})

\* lines 473 and 692: a retry is handed the transaction id of the dispatch
AttemptIdPerTry(t) == t.id + t.rc

AttemptId(t) == t.id

\* os.path.getsize of a file of the source directory
FileSize(f) == IF f = "a" THEN 1 ELSE 2

\* total_bytes after a send that succeeded: SFTPJob adds the size of the
\* file (lines 649-655), HTTPJob returns True and adds nothing (lines
\* 448-449)
BytesAfterSend(j, t) ==
  IF cfg[j].type = "sftp" THEN metrics[j].bytes + FileSize(t.file)
  ELSE metrics[j].bytes

(***************************************************************************)
(* SFTPJob.connection_pool.  _get_connection (lines 535-603) looks up the  *)
(* session stored under id(asyncio.current_task()): the task of Job.run    *)
(* for a sequential job, whose transfers are awaited in the loop, and the  *)
(* task created for the transfer for a concurrent job.  Tasks that exist   *)
(* at the same time have different identities; every task is given its     *)
(* own here.  pool_semaphore (line 506) admits min(3, max) tasks to the     *)
(* making of a connection (lines 546-603); a task that finds it taken      *)
(* waits ("admit").  A connection to a server that accepts the credentials *)
(* is made at the first try.                                               *)
(***************************************************************************)
KeyPerJob(j, t) == RunTask

Key(j, t) == IF Sequential(cfg[j]) THEN RunTask ELSE t.id

\* line 506: asyncio.Semaphore(min(3, self.max_concurrent_transfers))
PoolCapMax(c) == c.maxc

PoolCap(c) == Min(3, c.maxc)

\* line 546: pool_semaphore has a permit left
PoolFree(j) ==
  Cardinality({t \in xfer[j] : t.st = "connect"}) < PoolCap(cfg[j])

\* as Stored, the connection left out of the pool
StoredNowhere(j, t) == pool[j]

\* lines 580-584: self.connection_pool[task_id] = conn
Stored(j, t) == pool[j] \cup {Key(j, t)}

\* lines 669-672: close the session of the task and delete it from the pool
Evicted(j, t) == pool[j] \ {Key(j, t)}

\* the pool after an attempt that failed with an error of the kind
PoolAfterError(j, t, kind) ==
  IF cfg[j].type # "sftp" \/ kind = "other" THEN pool[j] ELSE Evicted(j, t)

\* the start of an attempt, lines 537-548: with a session in the pool
\* under its key the task goes on to the put, without one it acquires
\* pool_semaphore, waits connection_delay and connects
Attempt(j, t) ==
  LET u == [t EXCEPT !.tid = AttemptId(t)]
      h == Format(cfg[j].header, Replacements(u))
  IN IF cfg[j].type = "sftp" /\ Key(j, t) \notin pool[j]
     THEN IF PoolFree(j)
          THEN [u EXCEPT !.st = "connect", !.wake = ConnectionDelayMs]
          ELSE [u EXCEPT !.st = "admit", !.wake = Infinity]
     ELSE IF cfg[j].type = "sftp"
     THEN [u EXCEPT !.st = "send", !.wake = cfg[j].io]
     ELSE [u EXCEPT !.st = "send", !.hdr = h,
                    !.wake = IF h.ok THEN cfg[j].io ELSE 0]

(***************************************************************************)
(* Job._transfer_file, lines 198-259.                                      *)
(***************************************************************************)
Replace(j, t, u) == [xfer EXCEPT ![j] = (@ \ {t}) \cup {u}]

\* lines 200-211: the semaphore is acquired, the id is tracked and
\* send_file starts its first attempt (HTTPJob.send_file, line 485, begins
\* with _ensure_session)
TaskStart(j, t) ==
  /\ Running
  /\ t \in xfer[j]
  /\ t.st = "start"
  /\ SemFree(j)
  /\ active' = [active EXCEPT ![j] = @ \cup {t.id}]
  /\ xfer' = Replace(j, t, Attempt(j, t))
  /\ session' = [session EXCEPT ![j] = EnsureSession(cfg[j], @)]
  /\ UNCHANGED <<src, metrics, pool, mainpc, cfg, nextId, rate, stats, loop, tasks, dir,
                 lastScan, last, envOps>>

\* as Count, a success counted as a failure too
CountBoth(s, success) ==
  [total |-> s.total + 1,
   ok |-> IF success THEN s.ok + 1 ELSE s.ok,
   failed |-> s.failed + 1]

\* lines 232-237: the counters
Count(s, success) ==
  [total |-> s.total + 1,
   ok |-> IF success THEN s.ok + 1 ELSE s.ok,
   failed |-> IF success THEN s.failed ELSE s.failed + 1]

Finished(t, r, res) == [t EXCEPT !.st = "done", !.res = res, !.resp = r]

\* as Finalize, without the handler of lines 223-228: the exception of
\* send_file leaves _transfer_file and reaches the loop body
FinalizeUncaught(j, t, r, res) ==
  /\ stats' = [stats EXCEPT ![j] = IF res = "raise" THEN @ ELSE Count(@, res = "ok")]
  /\ active' = [active EXCEPT ![j] = IF t.file \in dir[j] /\ res # "raise"
                                     THEN @ \ {t.id} ELSE @]
  /\ last' = [last EXCEPT ![j] = Outcome(Finished(t, r, res), res)]
  /\ IF loop[j].pc = "await" /\ loop[j].tx = t.id
     THEN /\ xfer' = [xfer EXCEPT ![j] = @ \ {t}]
          /\ loop' = [loop EXCEPT ![j].pc = IF res = "raise" THEN "raised" ELSE "sleep",
                                  ![j].wake = rate[j].interval]
     ELSE /\ xfer' = Replace(j, t, Finished(t, r, res))
          /\ loop' = loop
  /\ UNCHANGED <<dir>>

\* line 299: await asyncio.sleep(self.interval) after an awaited transfer
SequentialSleepNone(j) == 0

SequentialSleep(j) == rate[j].interval

\* lines 230-259, and for a sequential job the return into Job.run,
\* line 299: sleep the interval
Finalize(j, t, r, res) ==
  /\ stats' = [stats EXCEPT ![j] = Count(@, res = "ok")]
  /\ active' = [active EXCEPT ![j] = IF t.file \in dir[j] THEN @ \ {t.id} ELSE @]
  /\ last' = [last EXCEPT ![j] = Outcome(Finished(t, r, res), res)]
  /\ IF loop[j].pc = "await" /\ loop[j].tx = t.id
     THEN /\ xfer' = [xfer EXCEPT ![j] = @ \ {t}]
          /\ loop' = [loop EXCEPT ![j].pc = "sleep",
                                  ![j].wake = SequentialSleep(j)]
     ELSE /\ xfer' = Replace(j, t, Finished(t, r, res))
          /\ loop' = loop
  /\ UNCHANGED <<dir>>

(***************************************************************************)
(* send_file of HTTPJob (lines 411-486) and SFTPJob (lines 605-696): an    *)
(* attempt either succeeds or fails with an error of some kind; every      *)
(* kind of error is handed to _handle_retry.                               *)
(***************************************************************************)
\* _handle_retry, lines 461-473 and 683-692
RetriesExhaustedLate(c, retry_count) == retry_count > MaxRetries(c)

RetriesExhausted(c, retry_count) == retry_count >= MaxRetries(c)

BackoffDelay(c, retry_count) == RetryDelay(c) * Pow2(retry_count)

AttemptEnds(j, t) ==
  /\ Running
  /\ t \in xfer[j]
  /\ t.st \in {"connect", "send"}
  /\ t.wake = 0

\* line 546: a permit of pool_semaphore has come free and the task takes
\* it; line 548: it waits connection_delay
Admitted(j, t) ==
  /\ Running
  /\ t \in xfer[j]
  /\ t.st = "admit"
  /\ PoolFree(j)
  /\ xfer' = Replace(j, t, [t EXCEPT !.st = "connect",
                                     !.wake = ConnectionDelayMs])
  /\ UNCHANGED <<mainpc, cfg, nextId, rate, stats, active, loop, tasks, dir,
                 lastScan, last, envOps, pool, src, metrics, session>>

\* _get_connection, lines 572-584: the connection is made and stored
Connected(j, t) ==
  /\ AttemptEnds(j, t)
  /\ t.st = "connect"
  /\ ~ Rejecting(cfg[j])
  /\ pool' = [pool EXCEPT ![j] = Stored(j, t)]
  /\ xfer' = Replace(j, t, [t EXCEPT !.st = "send", !.wake = cfg[j].io])
  /\ UNCHANGED <<session, mainpc, cfg, nextId, rate, stats, active, loop, tasks, dir,
                 lastScan, last, envOps, src, metrics>>

\* the attempt succeeds: send_file returns True
SendOk(j, t, r) ==
  /\ AttemptEnds(j, t)
  /\ t.st = "send"
  /\ Succeeds(r)
  /\ Finalize(j, t, r, "ok")
  /\ metrics' = [metrics EXCEPT ![j].bytes = BytesAfterSend(j, t)]
  /\ UNCHANGED <<session, mainpc, cfg, nextId, rate, tasks, lastScan, envOps, pool, src>>

\* the attempt fails and is retried after the backoff delay
SendRetry(j, t, r) ==
  /\ AttemptEnds(j, t)
  /\ ~ Succeeds(r)
  /\ t.st = FailsIn(r.kind)
  /\ ~ RetriesExhausted(cfg[j], t.rc)
  /\ xfer' = Replace(j, t,
       [t EXCEPT !.st = "backoff",
                 !.resp = r,
                 !.wake = BackoffDelay(cfg[j], t.rc),
                 !.delays = Append(@, BackoffDelay(cfg[j], t.rc))])
  /\ pool' = [pool EXCEPT ![j] = PoolAfterError(j, t, r.kind)]
  /\ UNCHANGED <<session, mainpc, cfg, nextId, rate, stats, active, loop, tasks, dir,
                 lastScan, last, envOps, src, metrics>>

\* the backoff is over, lines 468-473 and 689-692: HTTPJob calls
\* _ensure_session, then _send_with_retry(retry_count + 1)
Retry(j, t) ==
  /\ t \in xfer[j]
  /\ t.st = "backoff"
  /\ t.wake = 0
  /\ xfer' = Replace(j, t, Attempt(j, [t EXCEPT !.rc = @ + 1]))
  /\ session' = [session EXCEPT ![j] = EnsureSession(cfg[j], @)]

BackoffWake(j, t) ==
  /\ Running
  /\ Retry(j, t)
  /\ UNCHANGED <<src, metrics, pool, mainpc, cfg, nextId, rate, stats, active, loop, tasks, dir,
                 lastScan, last, envOps>>

\* the attempt fails with the retries used up: send_file returns False
SendGiveUp(j, t, r) ==
  /\ AttemptEnds(j, t)
  /\ ~ Succeeds(r)
  /\ t.st = FailsIn(r.kind)
  /\ RetriesExhausted(cfg[j], t.rc)
  /\ Finalize(j, t, r, "fail")
  /\ pool' = [pool EXCEPT ![j] = PoolAfterError(j, t, r.kind)]
  /\ UNCHANGED <<session, mainpc, cfg, nextId, rate, tasks, lastScan, envOps, src, metrics>>

\* an exception escapes send_file, out of its first attempt, and is caught
\* at lines 223-228
SendRaises(j, t) ==
  /\ AttemptEnds(j, t)
  /\ t.rc = 0
  /\ Finalize(j, t, t.resp, "raise")
  /\ UNCHANGED <<session, src, metrics, pool, mainpc, cfg, nextId, rate, tasks, lastScan, envOps>>

(***************************************************************************)
(* Job.run, lines 320-322: the handler of the loop body.  Its call         *)
(* logger.error("job_error", error=str(e)) passes a keyword that           *)
(* logging.Logger.error does not accept, so the handler itself raises      *)
(* TypeError and the exception leaves the while loop.                      *)
(***************************************************************************)
LoopHandler(j) == [loop[j] EXCEPT !.pc = "raised"]

\* an exception that nothing deeper handles is raised in the loop body
\* (taken at the head of an iteration; the handler is the same for the
\* whole body)
IterationRaises(j) ==
  /\ Running
  /\ loop[j].pc = "top"
  /\ loop' = [loop EXCEPT ![j] = LoopHandler(j)]
  /\ UNCHANGED <<session, src, metrics, pool, mainpc, cfg, nextId, rate, stats, active, tasks, xfer, dir,
                 lastScan, last, envOps>>

(***************************************************************************)
(* Job.run, line 268: the exception leaves `async with self`, the job's    *)
(* __aexit__ runs and run() raises.                                        *)
(*                                                                         *)
(* HTTPJob.__aexit__, lines 358-362, closes the session.                   *)
(*                                                                         *)
(* SFTPJob.__aexit__, lines 516-533, goes through asyncio.all_tasks(), a   *)
(* set: every task of the event loop that is not the current one and not   *)
(* done is cancelled and awaited, in no particular order; then the         *)
(* sessions of the pool are closed and the pool is cleared.  The tasks of  *)
(* the event loop are the task of run.main, the run tasks of the jobs      *)
(* (asyncio.gather, __main__.py line 113) and the transfer tasks of every  *)
(* concurrent job (line 316).  While run.main waits in asyncio.gather, the *)
(* main task awaits the run tasks; a run task that awaits the main task,   *)
(* or two run tasks that await each other in __aexit__, close a cycle of   *)
(* awaits.  Task.cancel follows the awaited future, goes round the cycle   *)
(* until RecursionError, and the awaiting task is not resumed before the   *)
(* awaited one ends.  What comes of it:                                    *)
(*   no other run task is pending: the job stays in __aexit__ for ever     *)
(*     ("stuck"), with the tasks that the loop reached before the main     *)
(*     task cancelled, the other transfers running on and the pool as it   *)
(*     was; run.main never returns;                                        *)
(*   the other pending run task is an HTTP job's: it is cancelled and      *)
(*     ends, the main task ends with it, and __aexit__ gets through:       *)
(*     every task is cancelled and the pool is cleared ("exited");         *)
(*   the other pending run task is an SFTP job's: either its __aexit__     *)
(*     raises the RecursionError before its pool is cleared, it ends, and  *)
(*     this job gets through as above, or, reached before the main task,   *)
(*     it awaits this job while this job awaits it: both are stuck.        *)
(***************************************************************************)
\* as Cancel, the task ending as a successful transfer
CancelAsSuccess(t) ==
  IF t.st \in {"start", "admit", "connect", "send", "backoff"}
  THEN [t EXCEPT !.st = "done", !.res = "ok"] ELSE t

Cancel(t) == IF t.st \in {"start", "admit", "connect", "send", "backoff"}
             THEN [t EXCEPT !.st = "cancelled"] ELSE t

\* the run tasks that are pending, and those of them of the other jobs
PendingRuns ==
  {k \in JobIds : loop[k].pc \notin {"absent", "exited", "cancelled", "stuck"}}

OtherRuns(j) == PendingRuns \ {j}

\* the transfers in flight that run as tasks of their own (line 316)
TransferTasks ==
  UNION {{<<k, t>> : t \in InFlight(k)} :
           k \in {x \in JobIds : ~ Sequential(cfg[x])}}

\* what leaving the context can come to: how the job's own task ends up,
\* the other run tasks that are cancelled (runs), the transfer tasks that
\* are cancelled (tasks)
Stop(how, runs, S) == [how |-> how, runs |-> runs, tasks |-> S]

Stops(j) ==
  IF cfg[j].type # "sftp" THEN {Stop("exited", {}, {})}
  ELSE (IF OtherRuns(j) = {} THEN {} ELSE {Stop("exited", OtherRuns(j), TransferTasks)})
         \cup
       (IF OtherRuns(j) = {} \/ \E k \in OtherRuns(j) : cfg[k].type = "sftp"
        THEN {Stop("stuck", OtherRuns(j), S) : S \in SUBSET TransferTasks}
        ELSE {})

\* the transfers after the tasks of S and the run tasks of `runs` were
\* cancelled (a transfer of a sequential job is part of the run task)
Cancelled(S, runs) ==
  [k \in JobIds |->
     {IF <<k, t>> \in S \/ (k \in runs /\ Sequential(cfg[k])) THEN Cancel(t)
      ELSE t : t \in xfer[k]}]

RunExit(j) ==
  /\ mainpc = "gather"
  /\ loop[j].pc = "raised"
  /\ \E o \in Stops(j) :
       /\ loop' = [k \in JobIds |->
                     IF k = j THEN [loop[k] EXCEPT !.pc = o.how]
                     ELSE IF k \in o.runs
                     THEN [loop[k] EXCEPT !.pc = IF o.how = "stuck" THEN "stuck"
                                                 ELSE "cancelled"]
                     ELSE loop[k]]
       /\ xfer' = Cancelled(o.tasks, o.runs)
       /\ pool' = [pool EXCEPT ![j] = IF o.how = "exited" THEN {} ELSE @]
       /\ session' = [k \in JobIds |->
                        IF k = j \/ k \in o.runs
                        THEN CloseSession(cfg[k], session[k])
                        ELSE session[k]]
  /\ UNCHANGED <<mainpc, cfg, nextId, rate, stats, active, tasks, dir,
                 lastScan, last, envOps, src, metrics>>

(***************************************************************************)
(* run.main, lines 113-121: asyncio.gather without return_exceptions hands *)
(* the first exception of a job to main; asyncio.run cancels what is left  *)
(* and the process exits with status 1.  A run task that is cancelled      *)
(* leaves `async with self` in its turn: an HTTP job closes its session,   *)
(* an SFTP job, the main task being done, gets through __aexit__ and       *)
(* clears its pool.                                                        *)
(***************************************************************************)
GatherRaises ==
  /\ mainpc = "gather"
  /\ \E j \in JobIds : loop[j].pc = "exited"
  /\ mainpc' = "exit1"
  /\ loop' = [j \in JobIds |->
                IF loop[j].pc \in {"absent", "exited"} THEN loop[j]
                ELSE [loop[j] EXCEPT !.pc = "cancelled"]]
  /\ xfer' = [j \in JobIds |-> {Cancel(t) : t \in xfer[j]}]
  /\ pool' = [j \in JobIds |-> IF j \in PendingRuns THEN {} ELSE pool[j]]
  /\ session' = [j \in JobIds |->
                   IF j \in PendingRuns THEN CloseSession(cfg[j], session[j])
                   ELSE session[j]]
  /\ UNCHANGED <<src, metrics, cfg, nextId, rate, stats, active, tasks, dir, lastScan,
                 last, envOps>>

(***************************************************************************)
(* The environment: files appear in and disappear from a source directory. *)
(* A job looks at its directory in _scan_directory (os.listdir, line 177), *)
(* at a file about to be dispatched (os.path.isfile, line 290) and at a    *)
(* file whose transfer ends (os.path.getsize, line 240).  A change made    *)
(* from outside is taken at the last moment before the look that first     *)
(* sees it.                                                                *)
(***************************************************************************)
BeforeScan(j) == loop[j].pc = "top"

\* the number of changes explored; for a job whose transfers run in tasks
\* of their own or that may run two transfers at once, and when two jobs
\* are configured, no more than one
EnvBudget(c) ==
  IF c.maxc > 1 \/ c.mode = "concurrent" \/ Cardinality(Present) > 1
  THEN Min(MaxEnvOps, 1)
  ELSE MaxEnvOps

BeforeLookAt(j, f) ==
  \/ loop[j].pc = "for" /\ loop[j].files # <<>> /\ NextFile(loop[j].files) = f
  \/ \E t \in xfer[j] : t.file = f /\ t.st = "send" /\ t.wake = 0

EnvAddFile(j, f) ==
  /\ Running
  /\ BeforeScan(j)
  /\ envOps < EnvBudget(cfg[j])
  /\ src[j] = "dir"
  /\ f \notin dir[j]
  /\ dir' = [dir EXCEPT ![j] = @ \cup {f}]
  /\ envOps' = envOps + 1
  /\ UNCHANGED <<session, src, metrics, pool, mainpc, cfg, nextId, rate, stats, active, loop, tasks, xfer,
                 lastScan, last>>

EnvRemoveFile(j, f) ==
  /\ Running
  /\ BeforeLookAt(j, f)
  /\ envOps < EnvBudget(cfg[j])
  /\ src[j] = "dir"
  /\ f \in dir[j]
  /\ dir' = [dir EXCEPT ![j] = @ \ {f}]
  /\ envOps' = envOps + 1
  /\ UNCHANGED <<session, src, metrics, pool, mainpc, cfg, nextId, rate, stats, active, loop, tasks, xfer,
                 lastScan, last>>

\* the source path becomes a directory, holding the files of dir[j]
EnvMakeDir(j) ==
  /\ Running
  /\ BeforeScan(j)
  /\ envOps < EnvBudget(cfg[j])
  /\ src[j] # "dir"
  /\ src' = [src EXCEPT ![j] = "dir"]
  /\ envOps' = envOps + 1
  /\ UNCHANGED <<session, metrics, pool, mainpc, cfg, nextId, rate, stats, active, loop,
                 tasks, xfer, dir, lastScan, last>>

(***************************************************************************)
(* Time passes only while every coroutine is suspended, and then up to the *)
(* earliest pending timer (asyncio event loop).                            *)
(***************************************************************************)
Sleeping(j) == loop[j].pc \in {"idle", "sleep"}

Timers ==
  UNION {{loop[k].wake : k \in {x \in {j} : Sleeping(x)}}
           \cup {t.wake : t \in Holding(j)} : j \in JobIds}

Runnable(j) ==
  \/ loop[j].pc \in {"enter", "top"}
  \/ loop[j].pc = "for" /\ (ForEnds(j) \/ ForSkips(j) \/ CanDispatch(j))
  \/ loop[j].pc = "wait" /\ tasks[j] \cap DoneIds(j) # {}
  \/ SemFree(j) /\ \E t \in xfer[j] : t.st = "start"
  \/ PoolFree(j) /\ \E t \in xfer[j] : t.st = "admit"

Elapse(w, d) == IF w = Infinity THEN w ELSE w - d

Age(a, d, cap) == Min(a + d, cap)

Tick ==
  /\ Running
  /\ \A j \in JobIds : ~ Runnable(j)
  /\ \E d \in Timers :
       /\ \A v \in Timers : d <= v
       /\ d > 0
       /\ d # Infinity
       /\ loop' = [j \in JobIds |->
                     [loop[j] EXCEPT
                        !.wake = IF Sleeping(j) THEN Elapse(@, d) ELSE @,
                        !.ran = IF loop[j].pc \in {"absent", "enter"} THEN @
                                ELSE Age(@, d, MaxRan),
                        !.since = IF @ = NoTime THEN @
                                  ELSE Age(@, d, MaxRan)]]
       /\ xfer' = [j \in JobIds |->
                     {IF t \in Holding(j)
                      THEN [t EXCEPT !.wake = Elapse(@, d), !.age = @ + d]
                      ELSE t : t \in xfer[j]}]
       /\ lastScan' = [j \in JobIds |-> Age(lastScan[j], d, ScanIntervalMs)]
       /\ rate' = [j \in JobIds |->
                     IF rate[j].last_ramp = NoTime THEN rate[j]
                     ELSE [rate[j] EXCEPT !.last_ramp = Age(@, d, MaxRan)]]
       /\ metrics' = [j \in JobIds |->
                        IF j \in Created
                        THEN [metrics[j] EXCEPT
                                !.elapsed = Age(@, d, MaxRan)]
                        ELSE metrics[j]]
  /\ UNCHANGED <<session, src, pool, mainpc, cfg, nextId, stats, active, tasks, dir, last, envOps>>

JobStep(j) ==
  \/ Enter(j) \/ LoopIterate(j) \/ IdleWake(j)
  \/ ForEnd(j) \/ ForSkip(j)
  \/ DispatchSeq(j) \/ DispatchConc(j) \/ DispatchWait(j) \/ WaitDone(j)
  \/ SleepWake(j)
  \/ IterationRaises(j) \/ RunExit(j)

TransferStep(j, t) ==
  \/ TaskStart(j, t) \/ BackoffWake(j, t) \/ SendRaises(j, t)
  \/ Admitted(j, t) \/ Connected(j, t)
  \/ \E r \in Answers(j, t) :
        SendOk(j, t, r) \/ SendRetry(j, t, r) \/ SendGiveUp(j, t, r)

\* the steps of the jobs, of the clock and of the environment
Steps ==
  \/ CreateJobs
  \/ Tick
  \/ \E j \in JobIds : JobStep(j)
  \/ \E j \in JobIds : \E t \in xfer[j] : TransferStep(j, t)
  \/ \E j \in JobIds : \E f \in Files : EnvAddFile(j, f) \/ EnvRemoveFile(j, f)

Next == Steps \/ GatherRaises

Spec == Init /\ [][Next]_vars

(***************************************************************************)
(* HTTPJob.__aexit__, lines 358-362, closes the session and cancels no     *)
(* task: the transfer tasks of a concurrent HTTP job whose loop has been   *)
(* left run on until run.main has been resumed by gather and the teardown  *)
(* of asyncio.run cancels them.  A transfer whose backoff ends in between  *)
(* goes through lines 468-473 as at any other time.                        *)
(***************************************************************************)
LateRetry(j, t) ==
  /\ mainpc = "gather"
  /\ loop[j].pc = "exited"
  /\ cfg[j].type = "http"
  /\ Retry(j, t)
  /\ UNCHANGED <<src, metrics, pool, mainpc, cfg, nextId, rate, stats, active, loop,
                 tasks, dir, lastScan, last, envOps>>

NextLate == Next \/ \E j \in JobIds : \E t \in xfer[j] : LateRetry(j, t)

SpecLate == Init /\ [][NextLate]_vars

(***************************************************************************)
(* A process running two jobs.                                             *)
(***************************************************************************)
InitProc ==
  /\ InitCommon
  /\ SourcesExist
  /\ \E c \in { JobCfg("http", "accepted", "sequential", 1, Steady, 0),
                 JobCfg("sftp", "rejected", "sequential", 1, Steady, 500),
                 JobCfg("http", "accepted", "sequential", 1, Inverted, 0) }
                 \cup BadCfgs :
       cfg = [j \in JobIds |->
                IF j = 1 THEN c
                ELSE JobCfg("http", "accepted", "concurrent", 1, Steady, 500)]
  /\ dir = [j \in JobIds |-> {"a"}]

SpecProc == InitProc /\ [][Next]_vars

(***************************************************************************)
(* One job, its two rate strings written in every pair of units.           *)
(***************************************************************************)
InitRates ==
  /\ InitCommon
  /\ SourcesExist
  /\ \E c \in RateCfgs \cup BadCfgs
              \cup { JobCfg("http", "accepted", "concurrent", 1, Steady, 500) } :
       cfg = [j \in JobIds |-> IF j = 1 THEN c ELSE AbsentCfg]
  /\ dir = [j \in JobIds |-> IF j = 1 THEN {"a"} ELSE {}]

SpecRates == InitRates /\ [][Next]_vars

(***************************************************************************)
(* One SFTP job that may run two transfers at once.                        *)
(***************************************************************************)
PoolCfgs ==
  { JobCfg("sftp", "accepted", m, 2, Steady, 500) :
      m \in {"sequential", "concurrent"} }

InitPool ==
  /\ InitCommon
  /\ SourcesExist
  /\ \E c \in PoolCfgs : \E d \in {{"a"}, {"a", "b"}} :
       /\ cfg = [j \in JobIds |-> IF j = 1 THEN c ELSE AbsentCfg]
       /\ dir = [j \in JobIds |-> IF j = 1 THEN d ELSE {}]

\* run.main of a process whose one job is an SFTP job is never handed an
\* exception (RunExit): GatherRaises is no step of it
SpecPool == InitPool /\ [][Steps]_vars

(***************************************************************************)
(* Two jobs whose rate strings give the same number in two units that are  *)
(* synonyms: job 1 writes any of the synonyms, each letter in lower or in  *)
(* upper case, with or without a blank after the slash; job 2 writes the   *)
(* one-letter unit.  The jobs are constructed and no more.                 *)
(***************************************************************************)
Synonyms == {SecondUnits, MinuteUnits, HourUnits}

\* the number of letters of a unit
Letters(w) ==
  IF w \in {"s", "m", "h"} THEN 1
  ELSE IF w \in {"sec", "min"} THEN 3
  ELSE IF w = "hour" THEN 4
  ELSE IF w = "hours" THEN 5
  ELSE IF w \in {"second", "minute"} THEN 6
  ELSE 7

\* the one-letter unit among the synonyms
Short(units) == CHOOSE w \in units : Letters(w) = 1

UnitCfg(r) == JobCfg("http", "accepted", "sequential", 1, <<r, r, NoRate>>, 0)

InitUnits ==
  /\ InitCommon
  /\ SourcesExist
  /\ \E units \in Synonyms : \E w \in units : \E caps \in SUBSET (1..Letters(w)) :
     \E blanks \in {0, 1} : \E n \in {1, 7} :
       cfg = [j \in JobIds |->
                IF j = 1 THEN UnitCfg(Written(n, w, caps, blanks))
                ELSE UnitCfg(RateStr(n, Short(units)))]
  /\ dir = [j \in JobIds |-> {}]

NextUnits == CreateJobs

SpecUnits == InitUnits /\ [][NextUnits]_vars

(***************************************************************************)
(* One SFTP job that may run four transfers at once and launches them      *)
(* less than a millisecond apart, from the moment at which the first scan  *)
(* of its run loop has listed the four files of its directory (os.listdir  *)
(* gave them in the order a, b, c, d).  Nothing changes the directory, no  *)
(* put fails and no exception is raised in the body of the run loop.       *)
(***************************************************************************)
Rapid == <<PerSec(2000), PerSec(2000), NoRate>>

ManyFiles == <<"a", "b", "c", "d">>

ConnectCfg ==
  [JobCfg("sftp", "accepted", "concurrent", 4, Rapid, 500)
     EXCEPT !.server = Reliable]

InitConnect ==
  /\ mainpc = "gather"
  /\ nextId = 1
  /\ cfg = [j \in JobIds |-> IF j = 1 THEN ConnectCfg ELSE AbsentCfg]
  /\ rate = [j \in JobIds |-> IF j = 1 THEN NewRate(cfg[j])
                               ELSE [current |-> 0, interval |-> Infinity,
                                     last_ramp |-> NoTime]]
  /\ stats = [j \in JobIds |-> [total |-> 0, ok |-> 0, failed |-> 0]]
  /\ active = [j \in JobIds |-> {}]
  /\ loop = [j \in JobIds |->
               [pc |-> IF j = 1 THEN "for" ELSE "absent",
                files |-> IF j = 1 THEN ManyFiles ELSE <<>>,
                tx |-> 0, wake |-> 0, ran |-> 0, since |-> NoTime]]
  /\ tasks = [j \in JobIds |-> {}]
  /\ xfer = [j \in JobIds |-> {}]
  /\ last = [j \in JobIds |-> NoOutcome]
  /\ dir = [j \in JobIds |-> IF j = 1 THEN Range(ManyFiles) ELSE {}]
  /\ lastScan = [j \in JobIds |-> IF j = 1 THEN 0 ELSE ScanIntervalMs]
  /\ envOps = 0
  /\ pool = [j \in JobIds |-> {}]
  /\ metrics = [j \in JobIds |-> [bytes |-> 0, elapsed |-> 0, emitted |-> 0]]
  /\ session = [j \in JobIds |-> NoSession]
  /\ SourcesExist

\* the steps of a concurrent job that stays below its cap
LoopStep(j) ==
  \/ LoopIterate(j) \/ IdleWake(j)
  \/ ForEnd(j) \/ DispatchConc(j) \/ SleepWake(j)

NextConnect ==
  \/ Tick
  \/ \E j \in JobIds : LoopStep(j)
  \/ \E j \in JobIds : \E t \in xfer[j] : TransferStep(j, t)

SpecConnect == InitConnect /\ [][NextConnect]_vars

(***************************************************************************)
(* One HTTP job with one file, a configured header value and a server that *)
(* answers every request the same way.                                     *)
(***************************************************************************)
UuidPlaceholder == <<"{", "{", "uuid", "}", "}">>

FilenamePlaceholder == <<"{", "{", "filename", "}", "}">>

HeaderValues ==
  { <<"x">>, UuidPlaceholder, <<"name-">> \o FilenamePlaceholder,
    <<"{", "uuid", "}">> }

ServerAnswers ==
  { Status(200), Status(399), Status(400), Status(500),
    Exc("ClientError"), Exc("TimeoutError") }

HttpCfgs ==
  { [JobCfg("http", "accepted", "sequential", 1, Steady, 500)
       EXCEPT !.header = h, !.server = {r}] :
      h \in HeaderValues, r \in ServerAnswers }
    \cup
  { [JobCfg("http", "accepted", "concurrent", 1, Steady, 500)
       EXCEPT !.header = UuidPlaceholder] }

InitHttp ==
  /\ InitCommon
  /\ SourcesExist
  /\ \E c \in HttpCfgs :
       cfg = [j \in JobIds |-> IF j = 1 THEN c ELSE AbsentCfg]
  /\ dir = [j \in JobIds |-> IF j = 1 THEN {"a"} ELSE {}]

SpecHttp == InitHttp /\ [][Next]_vars

(***************************************************************************)
(* One HTTP job whose source path is a directory holding file a, or is     *)
(* missing or a regular file and becomes a directory holding file b; at 1  *)
(* file per second, at 2 (a loop faster than the scan interval) or at 0.   *)
(* The event loop runs whatever is ready: every step of the program that   *)
(* stays possible is taken (an exception in the loop body and a change     *)
(* from outside may or may not happen).                                    *)
(***************************************************************************)
Fast == <<PerSec(2), PerSec(2), NoRate>>

ZeroRate == <<RateStr(0, "s"), PerSec(1), NoRate>>

ScanCfgs ==
  { JobCfg("http", "accepted", "sequential", 1, Steady, 500),
    JobCfg("http", "accepted", "concurrent", 1, Fast, 500),
    JobCfg("http", "accepted", "sequential", 1, ZeroRate, 0),
    JobCfg("http", "accepted", "concurrent", 1, ZeroRate, 0) }

InitScan ==
  /\ InitCommon
  /\ \E c \in ScanCfgs : \E p \in {"dir", "missing", "file"} :
       /\ cfg = [j \in JobIds |-> IF j = 1 THEN c ELSE AbsentCfg]
       /\ src = [j \in JobIds |-> IF j = 1 THEN p ELSE "dir"]
       /\ dir = [j \in JobIds |->
                   IF j # 1 THEN {} ELSE IF p = "dir" THEN {"a"} ELSE {"b"}]

NextScan == Next \/ \E j \in JobIds : EnvMakeDir(j)

JobProgress(j) ==
  \/ Enter(j) \/ LoopIterate(j) \/ IdleWake(j)
  \/ ForEnd(j) \/ ForSkip(j)
  \/ DispatchSeq(j) \/ DispatchConc(j) \/ DispatchWait(j) \/ WaitDone(j)
  \/ SleepWake(j)
  \/ RunExit(j)

Fairness ==
  /\ WF_vars(CreateJobs)
  /\ WF_vars(GatherRaises)
  /\ WF_vars(Tick)
  /\ \A j \in JobIds : WF_vars(JobProgress(j))
  /\ \A j \in JobIds : WF_vars(\E t \in xfer[j] : TransferStep(j, t))

SpecScan == InitScan /\ [][NextScan]_vars /\ Fairness

(***************************************************************************)
(* Job._log_metrics, lines 130-156, called on a job that has finished some *)
(* transfers, at any time.  Nothing in the package calls it: it is no step *)
(* of Job.run, and is a step of this specification only.                   *)
(***************************************************************************)
\* line 135: if elapsed >= 60
WindowElapsedAlways(elapsed) == TRUE

WindowElapsed(elapsed) == elapsed >= MetricsWindowMs

LogMetrics(j) ==
  /\ metrics[j].emitted < MaxEmitted
  /\ metrics' = [metrics EXCEPT ![j] =
                   IF WindowElapsed(@.elapsed)
                   THEN [bytes |-> 0, elapsed |-> 0, emitted |-> @.emitted + 1]
                   ELSE @]
  /\ UNCHANGED <<session, mainpc, cfg, nextId, rate, stats, active, loop, tasks, xfer,
                 last, dir, lastScan, envOps, pool, src>>

\* time passes between two calls
Pass(d) ==
  /\ metrics' = [j \in JobIds |->
                   [metrics[j] EXCEPT
                      !.elapsed = Age(@, d, MetricsWindowMs + IdleSleepMs)]]
  /\ UNCHANGED <<session, mainpc, cfg, nextId, rate, stats, active, loop, tasks, xfer,
                 last, dir, lastScan, envOps, pool, src>>

InitMetrics ==
  /\ mainpc = "gather"
  /\ nextId = 1
  /\ cfg = [j \in JobIds |->
              IF j = 1 THEN JobCfg("sftp", "accepted", "sequential", 1, Steady, 500)
              ELSE AbsentCfg]
  /\ rate = [j \in JobIds |-> IF j = 1 THEN NewRate(cfg[j])
                               ELSE [current |-> 0, interval |-> Infinity,
                                     last_ramp |-> NoTime]]
  /\ \E ok \in 1..2 : \E failed \in 0..1 : \E bytes \in 1..(2 * ok) :
       /\ stats = [j \in JobIds |->
                     IF j = 1 THEN [total |-> ok + failed, ok |-> ok,
                                    failed |-> failed]
                     ELSE [total |-> 0, ok |-> 0, failed |-> 0]]
       /\ metrics = [j \in JobIds |->
                       [bytes |-> IF j = 1 THEN bytes ELSE 0,
                        elapsed |-> 0, emitted |-> 0]]
  /\ active = [j \in JobIds |-> {}]
  /\ loop = [j \in JobIds |-> [pc |-> IF j = 1 THEN "top" ELSE "absent",
                               files |-> <<>>, tx |-> 0, wake |-> 0,
                               ran |-> 0, since |-> NoTime]]
  /\ tasks = [j \in JobIds |-> {}]
  /\ xfer = [j \in JobIds |-> {}]
  /\ last = [j \in JobIds |-> NoOutcome]
  /\ lastScan = [j \in JobIds |-> ScanIntervalMs]
  /\ envOps = 0
  /\ pool = [j \in JobIds |-> {}]
  /\ dir = [j \in JobIds |-> {}]
  /\ session = [j \in JobIds |-> NoSession]
  /\ SourcesExist

NextMetrics ==
  \/ \E j \in Created : LogMetrics(j)
  \/ \E d \in {IdleSleepMs, MetricsWindowMs \div 2} : Pass(d)

SpecMetrics == InitMetrics /\ [][NextMetrics]_vars

(***************************************************************************)
(* Properties.                                                             *)
(***************************************************************************)
Failed(o) == o.res \in {"fail", "raise"}

Target(j) == ParseRate(cfg[j].target)

Initial(j) == ParseRate(cfg[j].initial)

\* C1: after a transfer of a file has reported success, and with nobody
\* else touching the directory, the file is no longer in the source
\* directory.
C1_DeletedAfterSuccess ==
  \A j \in JobIds :
    (envOps = 0 /\ last[j].res = "ok") => last[j].file \notin dir[j]

C3_ConcurrencyCap ==
  \A j \in JobIds :
    cfg[j].mode = "concurrent" => Cardinality(InFlight(j)) <= cfg[j].maxc

\* two transfers are in flight under a cap of two and the loop is blocked
\* on the third
C3_Witness ==
  \E j \in JobIds :
    /\ cfg[j].mode = "concurrent"
    /\ cfg[j].maxc = 2
    /\ Cardinality(InFlight(j)) = 2
    /\ loop[j].pc = "wait"

\* the time a ramp needs from the initial to the target rate, ms
RampTime(j) == ((Target(j) - Initial(j)) * 1000) \div RampOf(cfg[j])

\* the loop has just been through _update_rate
JustUpdated(j) ==
  \/ loop[j].pc = "for"
  \/ loop[j].pc = "idle" /\ loop[j].wake = IdleSleepMs

\* C4: with a ramp rate above 0 and initial < target, an iteration of the
\* run loop made once the job has run for (target - initial) / ramp_rate
\* seconds leaves the current rate at the target.
C4_RampReachesTarget ==
  \A j \in JobIds :
    ( /\ RampOf(cfg[j]) > 0
      /\ Initial(j) < Target(j)
      /\ JustUpdated(j)
      /\ loop[j].ran >= RampTime(j) )
    => rate[j].current = Target(j)

\* C5: the current rate of a job never exceeds its target rate and never
\* decreases from one state to the next.
C5_RateMonotoneBelowTarget ==
  /\ [](\A j \in Created : rate[j].current <= Target(j))
  /\ [][\A j \in JobIds : rate'[j].current >= rate[j].current]_vars

\* a ramping job has been through _update_rate after running for a second
C5_Witness ==
  \E j \in JobIds :
    /\ RampOf(cfg[j]) > 0
    /\ Initial(j) < Target(j)
    /\ JustUpdated(j)
    /\ loop[j].ran >= 1000

\* C6: an exception raised in the body of the run loop never makes the loop
\* exit.
C6_LoopSurvivesException ==
  \A j \in JobIds : loop[j].pc \notin {"raised", "exited"}

\* C7: nothing that happens in one job's run loop ends the process or stops
\* the run loop of another job.
C7_OtherJobsKeepRunning ==
  /\ mainpc # "exit1"
  /\ \A j \in JobIds : loop[j].pc # "cancelled"

\* C8: a transfer of an SFTP job whose credentials are rejected is never
\* retried and waits no backoff delay.
C8_AuthRejectionNotRetried ==
  \A j \in JobIds : \A t \in xfer[j] :
    Rejecting(cfg[j]) => t.rc = 0 /\ t.st # "backoff" /\ t.delays = <<>>

\* C9: a dispatch makes at most 1 + 3 attempts, the delay before retry
\* number k is 1 s * 2^k for HTTP and 2 s * 2^k for SFTP, and a send that
\* returns failure has made exactly 4 attempts.
C9_Backoffs(j) ==
  IF cfg[j].type = "http" THEN <<1000, 2000, 4000>> ELSE <<2000, 4000, 8000>>

C10_FailureStep(j) ==
  /\ last'[j] # last[j]
  /\ Failed(last'[j])

C10_FailureDoesNotStopJob ==
  [][\A j \in JobIds :
       C10_FailureStep(j) =>
         /\ stats'[j] = [total |-> stats[j].total + 1, ok |-> stats[j].ok,
                         failed |-> stats[j].failed + 1]
         /\ loop'[j].pc = IF cfg[j].mode = "sequential" THEN "sleep"
                          ELSE loop[j].pc
         /\ loop'[j].pc \notin {"raised", "exited", "cancelled"}
         /\ mainpc' = "gather"]_vars

\* a send that raised has been counted as a failure and the sequential
\* loop has gone on to the next file
C10_Witness ==
  \E j \in JobIds :
    /\ cfg[j].mode = "sequential"
    /\ last[j].res = "raise"
    /\ stats[j].failed = 1
    /\ stats[j].total = 1
    /\ loop[j].pc = "for"

\* the number of seconds in the unit of a rate string
UnitSeconds(u) ==
  IF u \in {"s", "sec", "second", "seconds"} THEN 1
  ELSE IF u \in {"m", "min", "minute", "minutes"} THEN 60
  ELSE 3600

\* initial above target, as files per second: n_i / s_i > n_t / s_t
InitialAboveTarget(c) ==
  c.initial.n * UnitSeconds(c.target.unit)
    > c.target.n * UnitSeconds(c.initial.unit)

\* the job has not been constructed and has done nothing
NeverStarted(j) ==
  /\ loop[j].pc = "absent"
  /\ xfer[j] = {}
  /\ active[j] = {}
  /\ stats[j].total = 0

\* C19: for every pair of units of the initial and the target rate, once
\* run.main is past the construction of the jobs, a job whose initial rate
\* is above its target rate in files per second has not been constructed
\* and has made no transfer, and a job whose initial rate is equal to or
\* below its target rate has been constructed.
C19_RateOrderChecked ==
  \A j \in JobIds :
    (cfg[j] \in RateCfgs /\ mainpc # "create") =>
      /\ InitialAboveTarget(cfg[j]) => NeverStarted(j)
      /\ ~ InitialAboveTarget(cfg[j]) => j \in Created

\* 121 files per minute against a target of 2 files per second has been
\* refused
C19_Witness ==
  \E j \in JobIds :
    /\ cfg[j].initial = RateStr(121, "m")
    /\ cfg[j].target = RateStr(2, "s")
    /\ mainpc = "returned"
    /\ NeverStarted(j)

\* the configuration of a job is invalid: unknown job type, a rate string
\* with an unknown unit, or initial rate above target rate
KnownUnit(r) ==
  r.unit \in {"s", "sec", "second", "seconds", "m", "min", "minute",
              "minutes", "h", "hour", "hours"}

Invalid(c) ==
  \/ c.type \notin {"http", "sftp"}
  \/ ~ KnownUnit(c.initial)
  \/ ~ KnownUnit(c.target)
  \/ c.ramp # NoRate /\ ~ KnownUnit(c.ramp)
  \/ InitialAboveTarget(c)

C16_SequentialOneInFlight ==
  \A j \in JobIds :
    cfg[j].mode = "sequential" =>
      /\ Cardinality(InFlight(j)) <= 1
      /\ \A t \in InFlight(j) : loop[j].pc = "await" /\ loop[j].tx = t.id

\* a sequential job allowed two concurrent transfers is sending one file
\* while another file of the same scan waits
C16_Witness ==
  \E j \in JobIds : \E t \in InFlight(j) :
    /\ cfg[j].mode = "sequential"
    /\ cfg[j].maxc = 2
    /\ t.st = "send"
    /\ loop[j].files # <<>>
    /\ NextFile(loop[j].files) \in dir[j]

\* C18: a transfer created by the run loop is always for the first file
\* that is left of the list the scan yielded, which is then taken off the
\* list; the list changes in no other way than by a file leaving its head
\* or by the next scan, and the next scan is made only when the list is
\* used up.
C18_ScanOrderKept ==
  /\ [](\A j \in JobIds : loop[j].pc = "top" => loop[j].files = <<>>)
  /\ [][\A j \in JobIds :
         /\ \A t \in xfer'[j] :
              (\A u \in xfer[j] : u.id # t.id) =>
                /\ loop[j].files # <<>>
                /\ t.file = Head(loop[j].files)
                /\ loop'[j].files = Tail(loop[j].files)
         /\ loop'[j].files # loop[j].files =>
              \/ loop[j].pc = "top"
              \/ loop[j].files # <<>> /\ loop'[j].files = Tail(loop[j].files)]_vars

\* the second file of a scan is being transferred after the first one
C18_Witness ==
  \E j \in JobIds :
    /\ Cardinality(dir[j]) = 2
    /\ envOps = 0
    /\ last[j].id = 1
    /\ loop[j].pc = "await"
    /\ loop[j].tx = 2
    /\ loop[j].files = <<>>
    /\ \E t \in InFlight(j) : t.id = 2 /\ t.file # last[j].file

Max0(x) == IF x > 0 THEN x ELSE 0

\* C14: while a sequential job sleeps after a transfer whose measured
\* duration was d, what is left of the sleep is never more than
\* max(0, interval - d).
C14_SleepLessDuration ==
  \A j \in JobIds :
    (cfg[j].mode = "sequential" /\ loop[j].pc = "sleep") =>
      loop[j].wake <= Max0(rate[j].interval - last[j].dur)

\* C15: when a sequential job starts a transfer, the time since it started
\* the transfer before is at least max(0, interval - d), d being the
\* measured duration of the transfer before.
C15_StartsApart ==
  [][\A j \in JobIds :
       ( /\ cfg[j].mode = "sequential"
         /\ loop[j].pc = "for"
         /\ loop'[j].pc = "await"
         /\ loop[j].since # NoTime )
       => loop[j].since >= Max0(rate[j].interval - last[j].dur)]_vars

\* a second transfer has been started one interval after the end of a
\* first one that took half a second
C15_Witness ==
  \E j \in JobIds : \E t \in InFlight(j) :
    /\ cfg[j].mode = "sequential"
    /\ loop[j].pc = "await"
    /\ loop[j].since = 0
    /\ last[j].id # 0
    /\ last[j].dur = 500
    /\ t.id = loop[j].tx
    /\ t.id > last[j].id

\* C17: a concurrent job blocks only with its task set at the cap and
\* launches from there only when a task has finished; below the cap it
\* launches at once; every launch is followed by a sleep of the current
\* interval and comes at least one interval after the launch before.
C17_LaunchStep(j) ==
  /\ cfg[j].mode = "concurrent"
  /\ \E t \in xfer'[j] : \A u \in xfer[j] : u.id # t.id

C17_ConcurrentLaunches ==
  /\ [](\A j \in JobIds :
         /\ loop[j].pc = "wait" => Cardinality(tasks[j]) >= cfg[j].maxc
         /\ (cfg[j].mode = "concurrent" /\ loop[j].pc = "sleep") =>
              loop[j].wake + loop[j].since >= Min(rate[j].interval, MaxRan))
  /\ [][\A j \in JobIds :
         C17_LaunchStep(j) =>
           /\ loop'[j].pc = "sleep"
           /\ loop'[j].wake = rate[j].interval
           /\ loop[j].since # NoTime => loop[j].since >= rate[j].interval
           /\ loop[j].pc = "for" => Cardinality(tasks[j]) < cfg[j].maxc
           /\ loop[j].pc = "wait" => tasks[j] \cap DoneIds(j) # {}
           /\ loop[j].pc \in {"for", "wait"}]_vars

\* a second transfer has just been launched while the first is still in
\* flight, and the loop sleeps the interval
C17_Witness ==
  \E j \in JobIds :
    /\ cfg[j].mode = "concurrent"
    /\ Cardinality(InFlight(j)) = 2
    /\ \E t \in InFlight(j) : t.st \in {"send", "backoff"}
    /\ loop[j].pc = "sleep"
    /\ loop[j].since = 0
    /\ loop[j].wake = rate[j].interval

\* C11: the pool of an SFTP job never holds more sessions than
\* min(3, max_concurrent_transfers).
C11_PoolWithinCap ==
  \A j \in JobIds :
    cfg[j].type = "sftp" => Cardinality(pool[j]) <= PoolCap(cfg[j])

\* C12: while a transfer of an SFTP job waits to retry after a failed
\* attempt, no session is stored in the pool under the identity of its
\* task, whatever the error of the attempt was.
C12_EvictedAfterFailure ==
  \A j \in JobIds : \A t \in xfer[j] :
    (cfg[j].type = "sftp" /\ t.st = "backoff") => Key(j, t) \notin pool[j]

\* the transfers of a job that are inside an attempt
Attempting(j) == {t \in xfer[j] : t.st \in {"connect", "send"}}

\* C13: two transfers of an SFTP job that are inside an attempt at the
\* same time never work under the same pool key, so never with the same
\* pooled session.
C13_SessionsExclusive ==
  \A j \in JobIds :
    cfg[j].type = "sftp" =>
      \A t, u \in Attempting(j) : t # u => Key(j, t) # Key(j, u)

\* two transfers are putting their files at the same time, each with its
\* own session in the pool
C13_Witness ==
  \E j \in JobIds : \E t, u \in Attempting(j) :
    /\ cfg[j].type = "sftp"
    /\ t # u
    /\ t.st = "send"
    /\ u.st = "send"
    /\ {Key(j, t), Key(j, u)} \subseteq pool[j]
(***************************************************************************)
(* C21: a configured header value that contains {{uuid}} or {{filename}}   *)
(* is sent with the placeholder replaced by the transaction id of the      *)
(* transfer, respectively by the base name of the file.                    *)
(***************************************************************************)
\* the header value with its placeholders replaced
RECURSIVE Templated(_, _)
Templated(v, t) ==
  IF v = <<>> THEN <<>>
  ELSE IF Len(v) >= 5 /\ SubSeq(v, 1, 5) = UuidPlaceholder
    THEN <<ToString(t.id)>> \o Templated(SubSeq(v, 6, Len(v)), t)
  ELSE IF Len(v) >= 5 /\ SubSeq(v, 1, 5) = FilenamePlaceholder
    THEN <<t.file>> \o Templated(SubSeq(v, 6, Len(v)), t)
  ELSE <<v[1]>> \o Templated(Tail(v), t)

HasPlaceholder(v) ==
  \E i \in 1..Len(v) :
    i + 4 <= Len(v)
      /\ SubSeq(v, i, i + 4) \in {UuidPlaceholder, FilenamePlaceholder}

C21_PlaceholdersReplaced ==
  \A j \in JobIds : \A t \in xfer[j] :
    (cfg[j].type = "http" /\ HasPlaceholder(cfg[j].header)
       /\ t.st \in {"send", "backoff", "done"})
      => t.hdr = Formatted(Templated(cfg[j].header, t))

(***************************************************************************)
(* C22: an attempt of an HTTP job succeeds exactly when it got a response  *)
(* with a status below 400; a status of 400 or more, a client error or a   *)
(* timeout fails the attempt, which then goes to the retry policy: a       *)
(* backoff while retries are left, the failure of the transfer otherwise.  *)
(***************************************************************************)
\* the record of transfer t after the step: its record in xfer, or what is
\* remembered of it once the loop has let go of it
AfterStep(j, t) ==
  IF \E u \in xfer'[j] : u.id = t.id
  THEN CHOOSE u \in xfer'[j] : u.id = t.id
  ELSE [last'[j] EXCEPT !.id = t.id] @@ [st |-> "done"]

AttemptEnded(j, t) ==
  /\ t.st = "send"
  /\ AfterStep(j, t).st \in {"backoff", "done"}
  /\ AfterStep(j, t).res # "raise"

C22_AttemptStep ==
  \A j \in JobIds : \A t \in xfer[j] :
    (cfg[j].type = "http" /\ AttemptEnded(j, t)) =>
      LET u == AfterStep(j, t)
          below400 == u.resp.kind = "status" /\ u.resp.code < 400
      IN /\ u.resp.kind \in {"status", "ClientError", "TimeoutError", "other"}
         /\ below400 <=> (u.st = "done" /\ u.res = "ok")
         /\ ~ below400 =>
              IF t.rc >= HttpMaxRetries THEN u.st = "done" /\ u.res = "fail"
              ELSE u.st = "backoff"

C22_SuccessBelow400 == [][C22_AttemptStep]_vars

C22_Witness ==
  \E j \in JobIds : \E t \in xfer[j] :
    /\ cfg[j].type = "http"
    /\ cfg[j].server = {Status(400)}
    /\ t.st = "backoff"
    /\ t.resp = Status(400)

(***************************************************************************)
(* C27: every dispatch mints a transaction id that no dispatch had before, *)
(* also when the same file is dispatched again in a later scan, and every  *)
(* attempt made for a dispatch, the retries included, is handed the id of  *)
(* that dispatch.                                                          *)
(***************************************************************************)
Ids(j) == {t.id : t \in xfer[j]}

C27_IdsNow ==
  \A j \in JobIds :
    /\ last[j].id < nextId
    /\ \A t \in xfer[j] :
         /\ t.id < nextId
         /\ t.st = "start" => t.tid = 0
         /\ t.st \in {"connect", "send", "backoff", "done"} => t.tid = t.id
         /\ \A k \in JobIds : \A u \in xfer[k] :
              (k # j \/ u # t) => u.id # t.id

C27_DispatchStep ==
  /\ nextId' \in {nextId, nextId + 1}
  /\ \A j \in JobIds : \A u \in xfer'[j] :
       u.id \notin Ids(j) =>
         \/ u.id = nextId /\ nextId' = nextId + 1
         \/ loop[j].pc = "wait" /\ u.id = loop[j].tx
  /\ \A j \in JobIds :
       (loop'[j].pc = "wait" /\ loop[j].pc # "wait") =>
         loop'[j].tx = nextId /\ nextId' = nextId + 1

C27_FreshIdPerDispatch == []C27_IdsNow /\ [][C27_DispatchStep]_vars

C27_Witness ==
  \E j \in JobIds : \E t \in xfer[j] :
    /\ t.rc >= 1
    /\ t.st = "send"
    /\ t.tid = t.id
    /\ last[j].file = t.file
    /\ last[j].id \notin {0, t.id}

(***************************************************************************)
(* C23: while the current rate of a job is 0 the job idles: it has         *)
(* dispatched no transfer.                                                 *)
(***************************************************************************)
C23_IdleAtRateZero ==
  \A j \in Created :
    rate[j].current = 0 => (loop[j].since = NoTime /\ xfer[j] = {})

(***************************************************************************)
(* C26: a scan call made less than one scan interval after the last call   *)
(* that read the directory yields nothing and does not read it (the time   *)
(* of the last read stays as it is), so the directory is read at most once *)
(* per scan interval.                                                      *)
(***************************************************************************)
\* the step is a call of _scan_directory by job j
ScanCall(j) == loop[j].pc = "top" /\ loop'[j].pc \in {"for", "idle"}

C26_ScanStep ==
  \A j \in JobIds :
    (ScanCall(j) /\ lastScan[j] < ScanIntervalMs) =>
      /\ loop'[j].pc = "idle"
      /\ loop'[j].files = <<>>
      /\ lastScan'[j] = lastScan[j]

C26_ScanRateLimited == [][C26_ScanStep]_vars

C26_Witness ==
  \E j \in JobIds :
    /\ loop[j].pc = "idle"
    /\ loop[j].wake = IdleSleepMs
    /\ lastScan[j] > 0
    /\ lastScan[j] < ScanIntervalMs
    /\ src[j] = "dir"
    /\ dir[j] # {}

(***************************************************************************)
(* File f of job j is in the source directory, the job runs at a positive  *)
(* rate and has transaction ids left for every file of the directory.      *)
(***************************************************************************)
Waiting(j, f) ==
  /\ Running
  /\ loop[j].pc \in {"top", "idle", "for", "await", "sleep", "wait"}
  /\ src[j] = "dir"
  /\ f \in dir[j]
  /\ rate[j].current > 0
  /\ nextId + Cardinality(dir[j]) <= MaxDispatch + 1

Dispatched(j, f) == last[j].file = f \/ \E t \in xfer[j] : t.file = f

\* the job has stopped or the file is gone again
Gone(j, f) == ~ Running \/ loop[j].pc \in {"raised", "exited"} \/ f \notin dir[j]

(***************************************************************************)
(* C24: a scan of a source path that is missing or is not a directory      *)
(* yields nothing and raises nothing, the loop sleeps and polls again; and *)
(* once the path is a directory with a file in it, the file is dispatched. *)
(***************************************************************************)
C24_ScanStep ==
  \A j \in JobIds :
    (loop[j].pc = "top" /\ src[j] # "dir" /\ loop'[j].pc # "top") =>
      \/ loop'[j].pc = "idle" /\ loop'[j].files = <<>>
                               /\ loop'[j].wake = IdleSleepMs
      \/ loop'[j] = LoopHandler(j)
      \/ loop'[j].pc = "cancelled"

C24_KeepsPolling ==
  \A j \in JobIds :
    (src[j] # "dir" /\ loop[j].pc = "idle")
      ~> (loop[j].pc = "top" \/ ~ Running)

C24_SourceUnavailable ==
  /\ [][C24_ScanStep]_vars
  /\ C24_KeepsPolling
  /\ \A j \in JobIds :
       (Waiting(j, "b") /\ "a" \notin dir[j])
         ~> (Dispatched(j, "b") \/ Gone(j, "b"))

C24_Witness ==
  \E j \in JobIds : \E t \in xfer[j] :
    /\ src[j] = "dir"
    /\ dir[j] = {"b"}
    /\ envOps = 1
    /\ t.file = "b"
    /\ loop[j].ran >= IdleSleepMs

(***************************************************************************)
(* C25: a scan that reads the directory yields every regular file that is  *)
(* in it at that moment, the files that appeared since the job started     *)
(* included; and a file that appeared in the directory of a job running at *)
(* a positive rate is eventually dispatched.                               *)
(***************************************************************************)
C25_ScanStep ==
  \A j \in JobIds :
    (ScanCall(j) /\ ~ (lastScan[j] < ScanIntervalMs) /\ src[j] = "dir") =>
      /\ Range(loop'[j].files) = dir[j]
      /\ Len(loop'[j].files) = Cardinality(dir[j])
      /\ lastScan'[j] = 0

C25_NewFilePickedUp ==
  /\ [][C25_ScanStep]_vars
  /\ \A j \in JobIds :
       (Waiting(j, "b") /\ "a" \in dir[j])
         ~> (Dispatched(j, "b") \/ Gone(j, "b"))

C25_Witness ==
  \E j \in JobIds : \E t \in xfer[j] :
    /\ dir[j] = {"a", "b"}
    /\ envOps = 1
    /\ t.file = "b"
    /\ last[j].file = "a"

(***************************************************************************)
(* C28: a job that keeps running logs a metrics summary once a window of   *)
(* 60 seconds has passed, so a job that runs on logs one sooner or later.  *)
(***************************************************************************)
C28_SummaryEmitted ==
  \A j \in JobIds :
    (Running /\ loop[j].pc = "top")
      ~> (metrics[j].emitted > 0 \/ ~ Running \/ nextId > MaxDispatch)

(***************************************************************************)
(* C29: _log_metrics, called once the window has elapsed, sets the byte    *)
(* counter to 0 and restarts the window, and leaves the total, success and *)
(* failure counts as they are; called before that, it changes nothing.     *)
(***************************************************************************)
C29_MetricsStep ==
  \A j \in JobIds :
    /\ stats'[j] = stats[j]
    /\ metrics'[j] # metrics[j] =>
         \/ /\ metrics'[j].bytes = metrics[j].bytes
            /\ metrics'[j].emitted = metrics[j].emitted
            /\ metrics'[j].elapsed > metrics[j].elapsed
         \/ /\ metrics[j].elapsed >= 60000
            /\ metrics'[j].bytes = 0
            /\ metrics'[j].elapsed = 0
            /\ metrics'[j].emitted = metrics[j].emitted + 1

C29_EmissionResetsBytesOnly == [][C29_MetricsStep]_vars

C29_Witness ==
  \E j \in JobIds :
    /\ metrics[j].emitted = 1
    /\ metrics[j].bytes = 0
    /\ metrics[j].elapsed = 0
    /\ stats[j].total = 3
    /\ stats[j].ok = 2

(***************************************************************************)
(* C30: every successful transfer, of an HTTP job as of an SFTP job, adds  *)
(* the size of its file to the byte counter; a failed one adds nothing.    *)
(* No summary is logged while a job runs, so the counter holds the sizes   *)
(* of all the files sent so far.                                           *)
(***************************************************************************)
C30_BytesCounted ==
  \A j \in JobIds :
    metrics[j].emitted = 0 =>
      /\ metrics[j].bytes >= stats[j].ok * FileSize("a")
      /\ metrics[j].bytes <= stats[j].ok * FileSize("b")

(***************************************************************************)
(* C31: once the run loop of an SFTP job has been stopped, by cancellation *)
(* or by an exception, none of its transfers is in flight any more and its *)
(* connection pool is empty.                                               *)
(***************************************************************************)
Stopped(j) == loop[j].pc \in {"exited", "cancelled", "stuck"}

C31_StoppedPoolClosed ==
  \A j \in JobIds :
    (cfg[j].type = "sftp" /\ Stopped(j)) =>
      /\ InFlight(j) = {}
      /\ pool[j] = {}

(***************************************************************************)
(* C38: the step in which an SFTP job leaves its run loop cancels nothing  *)
(* of another job: the run loop and the transfers of every other job are  *)
(* after the step as they were before it.                                  *)
(***************************************************************************)
Leaves(j) == loop[j].pc = "raised" /\ loop'[j].pc # "raised"

C38_StopStep ==
  \A j \in JobIds :
    (cfg[j].type = "sftp" /\ Leaves(j)) =>
      \A k \in JobIds \ {j} :
        /\ loop'[k] = loop[k]
        /\ xfer'[k] = xfer[k]

C38_OtherJobsNotCancelled == [][C38_StopStep]_vars

(***************************************************************************)
(* C32: a rate string whose unit is a synonym of the second, of the minute *)
(* or of the hour, in whatever letter case, parses to N files per second,  *)
(* N/60 or N/3600 (here 3600 N, 60 N and N files per hour), so two rate    *)
(* strings with the same number and synonymous units parse to the same     *)
(* rate.                                                                   *)
(***************************************************************************)
PerHour(units) ==
  IF units = SecondUnits THEN 3600 ELSE IF units = MinuteUnits THEN 60 ELSE 1

C32_Parsed(j) ==
  \A units \in Synonyms :
    cfg[j].initial.unit \in units =>
      /\ j \in Created
      /\ rate[j].current = cfg[j].initial.n * PerHour(units)

C32_SynonymsAgree ==
  mainpc # "create" =>
    /\ \A j \in JobIds : C32_Parsed(j)
    /\ \A j, k \in JobIds :
         (cfg[j].initial.n = cfg[k].initial.n
            /\ \E units \in Synonyms :
                 {cfg[j].initial.unit, cfg[k].initial.unit} \subseteq units)
           => rate[j].current = rate[k].current

C32_Witness ==
  /\ mainpc = "gather"
  /\ cfg[1].initial = Written(7, "hours", {1, 3}, 1)
  /\ cfg[2].initial = RateStr(7, "h")
  /\ rate[1].current = 7
  /\ rate[2].current = 7

(***************************************************************************)
(* C33: the tracked set of active transfers holds exactly the transaction  *)
(* ids of the transfers that are executing (inside the semaphore of        *)
(* _transfer_file and not yet finished): an id leaves the set when its     *)
(* transfer finishes, whatever the outcome and whether or not the source   *)
(* file is still there.                                                    *)
(***************************************************************************)
Executing(j) == {t.id : t \in Holding(j)}

C33_ActiveIsExecuting ==
  \A j \in JobIds : Running => active[j] = Executing(j)

(***************************************************************************)
(* C34: a transfer cancelled in flight is never counted as successful and  *)
(* its source file stays in the source directory: the step that cancels    *)
(* it changes neither the success counter nor the directory, a cancelled   *)
(* transfer stays cancelled, and no step marks a transfer successful       *)
(* without being the step that counts it.                                  *)
(***************************************************************************)
FlightIds(j) == {t.id : t \in InFlight(j)}

CancelledIds(j) == {t.id : t \in {u \in xfer[j] : u.st = "cancelled"}}

SuccessIds(j) ==
  {t.id : t \in {u \in xfer[j] : u.st = "done" /\ u.res = "ok"}}

C34_Step ==
  \A j \in JobIds :
    /\ CancelledIds(j) \subseteq CancelledIds(j)'
    /\ (FlightIds(j) \cap CancelledIds(j)' # {}) =>
         /\ stats'[j] = stats[j]
         /\ dir'[j] = dir[j]
    /\ (SuccessIds(j)' \ SuccessIds(j) # {}) =>
         /\ stats'[j].ok = stats[j].ok + 1
         /\ CancelledIds(j)' = CancelledIds(j)

C34_CancelledNotSuccessful == [][C34_Step]_vars

\* a transfer was cancelled during its attempt; its file is in the
\* directory and nothing was counted
C34_Witness ==
  \E j \in JobIds : \E t \in xfer[j] :
    /\ t.st = "cancelled"
    /\ t.id \in active[j]
    /\ t.file \in dir[j]
    /\ stats[j].total = 0

(***************************************************************************)
(* C35: at any instant at most min(3, max_concurrent_transfers) transfers  *)
(* of an SFTP job are establishing a connection, however many transfers    *)
(* are in flight.                                                          *)
(***************************************************************************)
Establishing(j) == {t \in xfer[j] : t.st = "connect"}

C35_EstablishingCapped ==
  \A j \in JobIds :
    cfg[j].type = "sftp" =>
      /\ Cardinality(Establishing(j)) <= 3
      /\ Cardinality(Establishing(j)) <= cfg[j].maxc

\* four transfers are in flight: three establish a connection and the
\* fourth waits for a permit
C35_Witness ==
  \E j \in JobIds :
    /\ cfg[j].type = "sftp"
    /\ cfg[j].maxc = 4
    /\ Cardinality(InFlight(j)) = 4
    /\ Cardinality(Establishing(j)) = 3
    /\ \E t \in xfer[j] : t.st = "admit"

(***************************************************************************)
(* C36: an HTTP job never has more than one open client session, and once  *)
(* its run loop has been left no session the job created is open.          *)
(***************************************************************************)
C36_OneSession ==
  \A j \in JobIds :
    cfg[j].type = "http" =>
      /\ session[j].open <= 1
      /\ loop[j].pc \in {"exited", "cancelled"} => session[j].open = 0

(***************************************************************************)
(* C37: total_transfers = successful_transfers + failed_transfers in every *)
(* state, and every transfer that finishes adds one to total_transfers and *)
(* one to exactly one of the two other counters, in whatever order the     *)
(* transfers of a concurrent job finish.                                   *)
(***************************************************************************)
C37_Sum ==
  \A j \in JobIds : stats[j].total = stats[j].ok + stats[j].failed

C37_Step ==
  \A j \in JobIds :
    /\ (stats'[j] # stats[j] \/ DoneIds(j)' \ DoneIds(j) # {}) =>
         /\ stats'[j].total = stats[j].total + 1
         /\ \/ stats'[j].ok = stats[j].ok + 1 /\ stats'[j].failed = stats[j].failed
            \/ stats'[j].ok = stats[j].ok /\ stats'[j].failed = stats[j].failed + 1
    /\ Cardinality(DoneIds(j)' \ DoneIds(j)) <= 1

C37_CountersAddUp == []C37_Sum /\ [][C37_Step]_vars

\* transfers of a concurrent job have finished, one of them successful and
\* one failed
C37_Witness ==
  \E j \in JobIds :
    /\ cfg[j].mode = "concurrent"
    /\ stats[j].ok >= 1
    /\ stats[j].failed >= 1
    /\ stats[j].total = stats[j].ok + stats[j].failed

(***************************************************************************)
(* C39: in concurrent mode a file whose transfer is in flight is not       *)
(* dispatched again before that transfer has finished: no two transfers    *)
(* in flight in one job are of the same file.                              *)
(***************************************************************************)
C39_OneTransferPerFile ==
  \A j \in JobIds :
    cfg[j].mode = "concurrent" =>
      \A t, u \in InFlight(j) : t.file = u.file => t = u

(***************************************************************************)
(* C40: the pool of a sequential SFTP job holds at most one connection,    *)
(* and the transfer that follows a successful transfer goes straight to    *)
(* the put over the pooled connection: it makes no connection and the      *)
(* pool stays as it is.                                                    *)
(***************************************************************************)
SequentialSftp(j) == cfg[j].type = "sftp" /\ Sequential(cfg[j])

C40_PoolOfOne ==
  \A j \in JobIds : SequentialSftp(j) => Cardinality(pool[j]) <= 1

C40_Step ==
  \A j \in JobIds :
    (SequentialSftp(j) /\ last[j].res = "ok") =>
      \A t \in xfer[j] : \A u \in xfer'[j] :
        (t.st = "start" /\ u.id = t.id /\ u.st \notin {"start", "cancelled"}) =>
          /\ u.st = "send"
          /\ pool'[j] = pool[j]

C40_SequentialReusesConnection == []C40_PoolOfOne /\ [][C40_Step]_vars

\* the second transfer of a sequential job has started its put at once,
\* on the connection the first transfer made
C40_Witness ==
  \E j \in JobIds : \E t \in xfer[j] :
    /\ SequentialSftp(j)
    /\ last[j].res = "ok"
    /\ stats[j].ok = 1
    /\ t.st = "send"
    /\ t.age = 0
    /\ Cardinality(pool[j]) = 1

====
